---------------------------- MODULE Spec2Model ----------------------------
(***************************************************************************)
(* The calculator session of src/App.tsx: the input buffer, the displayed  *)
(* result, the history log, the loading flag, the fallback call in flight   *)
(* and the voice capture sessions, with one action per handler.             *)
(*                                                                          *)
(* Text is a sequence of one-character strings, so that append, slice and   *)
(* replace are the operations the code performs on its strings.             *)
(*                                                                          *)
(* React renders after every event, so a handler reads the state the last   *)
(* event left; a handler and the render that follows it are one step.  The  *)
(* part of handleCalculate after its await is a step of its own, and reads  *)
(* the input its closure captured when '=' was pressed.                     *)
(***************************************************************************)
EXTENDS Integers, Sequences, FiniteSets, TLC

(***************************************************************************)
(* Bounds of the model.                                                     *)
(***************************************************************************)
\* The longest input buffer a keypad or voice append may produce.
MaxLen == 2
\* The number of evaluation requests ('=' with a non-empty buffer) explored
\* with every input.
MaxEvals == 2
\* The number of voice capture sessions alive at a time.
MaxSessions == 1
\* SpecHist first fills the history with this many evaluations of "1".
WarmEvals == 19
\* The longest text SpecNormalize hands to the expression rewrite.
MaxText == 4
\* The most words of a transcript SpecCanon draws from its vocabulary.
MaxWords == 3
\* The number of voice capture sessions alive at a time in SpecMic.
MicSessions == 2
\* The longest buffer a key of SpecDiv is appended to, less one.
MaxDivLen == 3

\* src/App.tsx:131 and :139, slice(0, 20)
HistoryCap == 20

-----------------------------------------------------------------------------
(***************************************************************************)
(* Text helpers.                                                            *)
(***************************************************************************)
Digits == <<"0", "1", "2", "3", "4", "5", "6", "7", "8", "9">>

IsDigit(c) == \E i \in 1..10 : Digits[i] = c

DigitVal(c) == (CHOOSE i \in 1..10 : Digits[i] = c) - 1

Letters == {"I", "n", "f", "i", "t", "y", "N", "a", "p", "e", "l", "o", "g",
            "s", "c", "q", "r"}

\* String.prototype.slice(0, -1)
DropLast(s) == IF Len(s) = 0 THEN s ELSE SubSeq(s, 1, Len(s) - 1)

\* Array.prototype.slice(0, n)
Slice0(s, n) == IF Len(s) <= n THEN s ELSE SubSeq(s, 1, n)

\* The decimal digits of a natural number.
RECURSIVE NatText(_)
NatText(n) == IF n < 10 THEN <<Digits[n + 1]>>
              ELSE NatText(n \div 10) \o <<Digits[(n % 10) + 1]>>

\* n written with exactly w digits (leading zeros).
RECURSIVE Pad(_, _)
Pad(n, w) == IF w = 0 THEN <<>>
             ELSE Pad(n \div 10, w - 1) \o <<Digits[(n % 10) + 1]>>

RECURSIVE StripZeros(_)
StripZeros(s) == IF Len(s) > 0 /\ s[Len(s)] = "0" THEN StripZeros(DropLast(s))
                 ELSE s

ErrorText == <<"E", "r", "r", "o", "r">>
ApiErrorText == <<"A", "P", "I", " ", "E", "r", "r", "o", "r">>
InfinityText == <<"I", "n", "f", "i", "n", "i", "t", "y">>
NaNText == <<"N", "a", "N">>
ZeroText == <<"0">>

-----------------------------------------------------------------------------
(***************************************************************************)
(* The expression rewrite of handleCalculate (lines 116-117).               *)
(***************************************************************************)
\* .replace(/×/g, '*').replace(/÷/g, '/').replace(/π/g, 'pi')
RECURSIVE ReplaceGlyphs(_)
ReplaceGlyphs(s) ==
    IF s = <<>> THEN <<>>
    ELSE (CASE Head(s) = "×" -> <<"*">>
            [] Head(s) = "÷" -> <<"/">>
            [] Head(s) = "π" -> <<"p", "i">>
            [] OTHER -> <<Head(s)>>) \o ReplaceGlyphs(Tail(s))

\* ReplaceLg taking 'log(' for the base-10 logarithm.
RECURSIVE ReplaceLogAsLg(_)
ReplaceLogAsLg(s) ==
    IF Len(s) >= 4 /\ SubSeq(s, 1, 4) = <<"l", "o", "g", "(">>
    THEN <<"l", "o", "g", "1", "0", "(">> \o ReplaceLogAsLg(SubSeq(s, 5, Len(s)))
    ELSE IF s = <<>> THEN <<>>
    ELSE <<Head(s)>> \o ReplaceLogAsLg(Tail(s))

\* .replace(/lg\(/g, 'log10(')
RECURSIVE ReplaceLg(_)
ReplaceLg(s) ==
    IF Len(s) >= 3 /\ SubSeq(s, 1, 3) = <<"l", "g", "(">>
    THEN <<"l", "o", "g", "1", "0", "(">> \o ReplaceLg(SubSeq(s, 4, Len(s)))
    ELSE IF s = <<>> THEN <<>>
    ELSE <<Head(s)>> \o ReplaceLg(Tail(s))

\* .replace(/ln\(/g, 'log(')
RECURSIVE ReplaceLn(_)
ReplaceLn(s) ==
    IF Len(s) >= 3 /\ SubSeq(s, 1, 3) = <<"l", "n", "(">>
    THEN <<"l", "o", "g", "(">> \o ReplaceLn(SubSeq(s, 4, Len(s)))
    ELSE IF s = <<>> THEN <<>>
    ELSE <<Head(s)>> \o ReplaceLn(Tail(s))

Normalize(s) == ReplaceLn(ReplaceLg(ReplaceGlyphs(s)))

-----------------------------------------------------------------------------
(***************************************************************************)
(* evaluate(expression, scope) of mathjs (line 128), on the expressions the *)
(* model's buttons, transcripts and results can form: decimal integers, the *)
(* constants Infinity and NaN, unary and binary + and -, binary * and /.    *)
(* Anything else is a syntax error or an undefined symbol, which mathjs     *)
(* throws.  A value is a JavaScript number: a signed fraction (the sign is  *)
(* kept apart so that -0 exists), an infinity, or NaN.                      *)
(***************************************************************************)
Num(s, n, d) == [k |-> "num", s |-> s, n |-> n, d |-> d]
Inf(s) == [k |-> "inf", s |-> s, n |-> 0, d |-> 1]
NaN == [k |-> "nan", s |-> 1, n |-> 0, d |-> 1]

Neg(a) == [a EXCEPT !.s = -a.s]

Add(a, b) ==
    CASE a.k = "nan" \/ b.k = "nan" -> NaN
      [] a.k = "inf" /\ b.k = "inf" -> IF a.s = b.s THEN a ELSE NaN
      [] a.k = "inf" -> a
      [] b.k = "inf" -> b
      [] OTHER ->
            LET t == a.s * a.n * b.d + b.s * b.n * a.d
            IN  IF t = 0 THEN Num(IF a.s = -1 /\ b.s = -1 THEN -1 ELSE 1, 0, 1)
                ELSE IF t > 0 THEN Num(1, t, a.d * b.d)
                ELSE Num(-1, -t, a.d * b.d)

Mul(a, b) ==
    CASE a.k = "nan" \/ b.k = "nan" -> NaN
      [] a.k = "inf" /\ b.k = "inf" -> Inf(a.s * b.s)
      [] a.k = "inf" -> IF b.n = 0 THEN NaN ELSE Inf(a.s * b.s)
      [] b.k = "inf" -> IF a.n = 0 THEN NaN ELSE Inf(a.s * b.s)
      [] OTHER -> Num(a.s * b.s, a.n * b.n, a.d * b.d)

Div(a, b) ==
    CASE a.k = "nan" \/ b.k = "nan" -> NaN
      [] a.k = "inf" /\ b.k = "inf" -> NaN
      [] a.k = "inf" -> Inf(a.s * b.s)
      [] b.k = "inf" -> Num(a.s * b.s, 0, 1)
      [] b.n = 0 -> IF a.n = 0 THEN NaN ELSE Inf(a.s * b.s)
      [] OTHER -> Num(a.s * b.s, a.n * b.d, a.d * b.n)

Fail(i) == [ok |-> FALSE, v |-> NaN, i |-> i]
Done(v, i) == [ok |-> TRUE, v |-> v, i |-> i]

\* The end of the run of digits that starts at i.
RECURSIVE DigitsEnd(_, _)
DigitsEnd(s, i) == IF i <= Len(s) /\ IsDigit(s[i]) THEN DigitsEnd(s, i + 1) ELSE i

\* The end of the symbol name that starts at i.
RECURSIVE NameEnd(_, _)
NameEnd(s, i) == IF i <= Len(s) /\ (IsDigit(s[i]) \/ s[i] \in Letters)
                 THEN NameEnd(s, i + 1) ELSE i

RECURSIVE DecimalVal(_)
DecimalVal(s) == IF s = <<>> THEN 0
                 ELSE 10 * DecimalVal(DropLast(s)) + DigitVal(s[Len(s)])

ParsePrimary(s, i) ==
    IF i > Len(s) THEN Fail(i)
    ELSE IF IsDigit(s[i])
    THEN LET j == DigitsEnd(s, i)
         IN  Done(Num(1, DecimalVal(SubSeq(s, i, j - 1)), 1), j)
    ELSE IF s[i] \in Letters
    THEN LET j == NameEnd(s, i)
             name == SubSeq(s, i, j - 1)
         IN  CASE name = InfinityText -> Done(Inf(1), j)
               [] name = NaNText -> Done(NaN, j)
               [] OTHER -> Fail(i)
    ELSE Fail(i)

RECURSIVE ParseUnary(_, _)
ParseUnary(s, i) ==
    IF i <= Len(s) /\ s[i] \in {"-", "+"}
    THEN LET r == ParseUnary(s, i + 1)
         IN  IF ~r.ok THEN r
             ELSE Done(IF s[i] = "-" THEN Neg(r.v) ELSE r.v, r.i)
    ELSE ParsePrimary(s, i)

RECURSIVE MulDivRest(_, _)
MulDivRest(s, left) ==
    IF left.ok /\ left.i <= Len(s) /\ s[left.i] \in {"*", "/"}
    THEN LET r == ParseUnary(s, left.i + 1)
         IN  IF ~r.ok THEN r
             ELSE MulDivRest(s, Done(IF s[left.i] = "*" THEN Mul(left.v, r.v)
                                     ELSE Div(left.v, r.v), r.i))
    ELSE left

ParseMultiplyDivide(s, i) == MulDivRest(s, ParseUnary(s, i))

RECURSIVE AddSubRest(_, _)
AddSubRest(s, left) ==
    IF left.ok /\ left.i <= Len(s) /\ s[left.i] \in {"+", "-"}
    THEN LET r == ParseMultiplyDivide(s, left.i + 1)
         IN  IF ~r.ok THEN r
             ELSE AddSubRest(s, Done(IF s[left.i] = "+" THEN Add(left.v, r.v)
                                     ELSE Add(left.v, Neg(r.v)), r.i))
    ELSE left

ParseAddSubtract(s, i) == AddSubRest(s, ParseMultiplyDivide(s, i))

\* evaluate(expression): ok is FALSE where mathjs throws.
Evaluate(s) ==
    LET r == ParseAddSubtract(s, 1)
    IN  IF r.ok /\ r.i = Len(s) + 1 THEN r ELSE Fail(r.i)

(***************************************************************************)
(* Number(mathResult.toFixed(10)).toString() (line 129): ten decimals,      *)
(* half rounded up, then the shortest text of that number.                  *)
(***************************************************************************)
FormatResult(v) ==
    CASE v.k = "nan" -> NaNText
      [] v.k = "inf" -> (IF v.s = -1 THEN <<"-">> ELSE <<>>) \o InfinityText
      [] OTHER ->
            LET q0 == v.n \div v.d
                r0 == v.n % v.d
                hi0 == (r0 * 100000) \div v.d
                r1 == (r0 * 100000) % v.d
                lo0 == (2 * r1 * 100000 + v.d) \div (2 * v.d)
                lo == IF lo0 = 100000 THEN 0 ELSE lo0
                hi1 == IF lo0 = 100000 THEN hi0 + 1 ELSE hi0
                hi == IF hi1 = 100000 THEN 0 ELSE hi1
                q == IF hi1 = 100000 THEN q0 + 1 ELSE q0
                frac == StripZeros(Pad(hi, 5) \o Pad(lo, 5))
                zero == q = 0 /\ frac = <<>>
            IN  (IF v.s = -1 /\ ~zero THEN <<"-">> ELSE <<>>)
                \o NatText(q)
                \o (IF frac = <<>> THEN <<>> ELSE <<".">> \o frac)

-----------------------------------------------------------------------------
(***************************************************************************)
(* The transcript rewrite of recognition.onresult (lines 196-222).  A       *)
(* transcript is its sequence of lower-case words; the patterns match whole *)
(* words (\b), a replaced word becomes its symbol, and the last replace     *)
(* drops every word that is not one of the kept symbols.                    *)
(***************************************************************************)
IsPrefix(p, t) == Len(p) <= Len(t) /\ SubSeq(t, 1, Len(p)) = p

\* The first phrase of the alternation that matches at the front of t.
FirstMatch(alts, t) ==
    IF \E k \in 1..Len(alts) : IsPrefix(alts[k], t)
    THEN alts[CHOOSE k \in 1..Len(alts) :
                 /\ IsPrefix(alts[k], t)
                 /\ \A j \in 1..(k - 1) : ~IsPrefix(alts[j], t)]
    ELSE <<>>

\* t.replace(/\b(alt1|alt2|...)\b/gi, sym)
RECURSIVE ReplaceWords(_, _, _)
ReplaceWords(t, alts, sym) ==
    IF t = <<>> THEN <<>>
    ELSE LET m == FirstMatch(alts, t)
         IN  IF m # <<>>
             THEN <<sym>> \o ReplaceWords(SubSeq(t, Len(m) + 1, Len(t)), alts, sym)
             ELSE <<Head(t)>> \o ReplaceWords(Tail(t), alts, sym)

\* The replacements of lines 200-218, in their order.
Rules == <<
    [alts |-> << <<"one">>, <<"won">> >>, sym |-> "1"],
    [alts |-> << <<"two">>, <<"to">>, <<"too">> >>, sym |-> "2"],
    [alts |-> << <<"three">> >>, sym |-> "3"],
    [alts |-> << <<"four">>, <<"for">> >>, sym |-> "4"],
    [alts |-> << <<"five">> >>, sym |-> "5"],
    [alts |-> << <<"six">> >>, sym |-> "6"],
    [alts |-> << <<"seven">> >>, sym |-> "7"],
    [alts |-> << <<"eight">> >>, sym |-> "8"],
    [alts |-> << <<"nine">> >>, sym |-> "9"],
    [alts |-> << <<"zero">> >>, sym |-> "0"],
    [alts |-> << <<"plus">>, <<"add">> >>, sym |-> "+"],
    [alts |-> << <<"minus">>, <<"subtract">> >>, sym |-> "-"],
    [alts |-> << <<"times">>, <<"multiply">>, <<"multiplied", "by">> >>, sym |-> "*"],
    [alts |-> << <<"divided", "by">>, <<"divide">>, <<"over">> >>, sym |-> "/"],
    [alts |-> << <<"point">>, <<"dot">> >>, sym |-> "."],
    [alts |-> << <<"x">> >>, sym |-> "*"],
    [alts |-> << <<"power">>, <<"to", "the", "power", "of">> >>, sym |-> "^"],
    [alts |-> << <<"open", "parenthesis">> >>, sym |-> "("],
    [alts |-> << <<"close", "parenthesis">> >>, sym |-> ")"] >>

RECURSIVE ApplyRules(_, _)
ApplyRules(t, k) ==
    IF k > Len(Rules) THEN t
    ELSE ApplyRules(ReplaceWords(t, Rules[k].alts, Rules[k].sym), k + 1)

\* The characters /[^0-9+\-*/^().]/g keeps.
Kept == {Digits[i] : i \in 1..10} \cup {"+", "-", "*", "/", "^", "(", ")", "."}

\* Sanitize with nothing removed.
SanitizeKeepAll(t) == t

\* transcript.replace(/[^0-9+\-*/^().]/g, '')
Sanitize(t) == SelectSeq(t, LAMBDA w : w \in Kept)

Canonicalize(t) == Sanitize(ApplyRules(t, 1))

-----------------------------------------------------------------------------
(***************************************************************************)
(* The state of the App component (lines 20-33) and of its collaborators.   *)
(***************************************************************************)
VARIABLES
    input,          \* useState('')       the input buffer
    result,         \* useState('0')      the displayed result
    history,        \* useState([])       newest first
    isLoading,      \* useState(false)    TRUE while Evaluating
    isGemini,       \* useState(false)    the result came from the fallback
    isDegrees,      \* useState(false)
    is2nd,          \* useState(false)
    errorKey,       \* useState(0)
    isListening,    \* useState(false)
    recognitionRef, \* useRef(null): 0, or the index of a recognition
    recognitions,   \* the state of each SpeechRecognition object alive
    calls,          \* the calculateWithGemini calls awaited by handleCalculate
    clock,          \* the evaluations started so far; new Date() reads it
    nCalls,         \* the calculateWithGemini invocations so far
    log             \* every successful evaluation so far, newest first

calcVars == <<input, result, history, isLoading, isGemini, errorKey>>
modeVars == <<isDegrees, is2nd>>
micVars == <<isListening, recognitionRef, recognitions>>
evalVars == <<calls, clock, nCalls, log>>
vars == <<input, result, history, isLoading, isGemini, isDegrees, is2nd,
          errorKey, isListening, recognitionRef, recognitions, calls, clock,
          nCalls, log>>

NoReply == [kind |-> "none", result |-> <<>>]

\* What the fallback service can answer: a result text, the marker "Error",
\* no object at all, or a rejected promise.
Replies == {[kind |-> "value", result |-> <<"7">>],
            [kind |-> "value", result |-> ErrorText],
            [kind |-> "null", result |-> <<>>],
            [kind |-> "throw", result |-> <<>>]}

\* The transcripts a capture session can deliver.
Transcripts == {<<"two">>, <<"hello">>}

Init ==
    /\ input = <<>>
    /\ result = ZeroText
    /\ history = <<>>
    /\ isLoading = FALSE
    /\ isGemini = FALSE
    /\ isDegrees = FALSE
    /\ is2nd = FALSE
    /\ errorKey = 0
    /\ isListening = FALSE
    /\ recognitionRef = 0
    /\ recognitions = [s \in 1..MaxSessions |-> "none"]
    /\ calls = {}
    /\ clock = 0
    /\ nCalls = 0
    /\ log = <<>>

-----------------------------------------------------------------------------
\* lines 105-109
handleClear ==
    /\ input' = <<>>
    /\ result' = ZeroText
    /\ isGemini' = FALSE
    /\ UNCHANGED <<history, isLoading, errorKey, modeVars, micVars, evalVars>>

\* HistoryItem with the two texts exchanged.
HistoryItemSwapped(in, res, now) == [input |-> res, result |-> in, date |-> now]

\* { input, result, date: new Date() }
HistoryItem(in, res, now) == [input |-> in, result |-> res, date |-> now]

\* PushHistory without its slice.
PushHistoryUncapped(prev, item) == <<item>> \o prev

\* PushHistory adding at the far end.
PushHistoryOldestFirst(prev, item) == Slice0(prev \o <<item>>, HistoryCap)

\* [item, ...prev].slice(0, 20)
PushHistory(prev, item) == Slice0(<<item>> \o prev, HistoryCap)

\* The call of calculateWithGemini(input) that handleCalculate awaits; hist0
\* remembers the history at the request.
Call(id, in, hist) == [id |-> id, input |-> in, hist0 |-> hist, reply |-> NoReply]

\* Caught with the fallback tried after every evaluation.
CaughtAlways(mathResult) == TRUE

\* catch (error), line 134: entered when evaluate or toFixed threw.
Caught(mathResult) == ~mathResult.ok

\* FallbackOk without the test for the marker.
FallbackOkAnyText(reply) == reply.kind = "value"

\* geminiResult && geminiResult.result !== "Error", line 137
FallbackOk(reply) == reply.kind = "value" /\ reply.result # ErrorText

\* FinallyLoading with setIsLoading(false) skipped when the call threw.
FinallyLoadingNotOnThrow(reply) == reply.kind = "throw"

\* finally { setIsLoading(false) }, lines 153-155: isLoading after the
\* continuation that received `reply`.
FinallyLoading(reply) == FALSE

\* NoInput with the guard dropped.
NoInputNever == FALSE

\* if (!input) return;  line 112
NoInput == input = <<>>

\* lines 111-136: handleCalculate up to its return or its await.
handleCalculate ==
    IF NoInput THEN UNCHANGED vars
    ELSE LET mathResult == Evaluate(Normalize(input))
             formattedResult == FormatResult(mathResult.v)
             item == HistoryItem(input, formattedResult, clock + 1)
         IN  /\ clock' = clock + 1
             /\ UNCHANGED <<errorKey, modeVars, micVars>>
             /\ IF ~Caught(mathResult)
                THEN /\ result' = formattedResult
                     /\ history' = PushHistory(history, item)
                     /\ input' = formattedResult
                     /\ isGemini' = FALSE
                     /\ isLoading' = FALSE
                     /\ log' = <<item>> \o log
                     /\ UNCHANGED <<calls, nCalls>>
                ELSE /\ isLoading' = TRUE
                     /\ result' = <<>>
                     /\ calls' = calls \cup {Call(clock + 1, input, history)}
                     /\ nCalls' = nCalls + 1
                     /\ UNCHANGED <<input, history, isGemini, log>>

\* lines 136-155: handleCalculate from the settled await to its end.
handleCalculateResume(c) ==
    /\ c \in calls
    /\ c.reply # NoReply
    /\ calls' = calls \ {c}
    /\ isLoading' = FinallyLoading(c.reply)
    /\ UNCHANGED <<modeVars, micVars, clock, nCalls>>
    /\ IF FallbackOk(c.reply)
       THEN LET item == HistoryItem(c.input, c.reply.result, clock)
            IN  /\ result' = c.reply.result
                /\ history' = PushHistory(history, item)
                /\ input' = c.reply.result
                /\ isGemini' = TRUE
                /\ log' = <<item>> \o log
                /\ UNCHANGED errorKey
       ELSE /\ result' = IF c.reply.kind = "throw" THEN ApiErrorText ELSE ErrorText
            /\ input' = <<>>
            /\ errorKey' = errorKey + 1
            /\ UNCHANGED <<history, isGemini, log>>

\* The fallback service settles the promise of call c.
ServiceReply(c, r) ==
    /\ c \in calls
    /\ c.reply = NoReply
    /\ calls' = (calls \ {c}) \cup {[c EXCEPT !.reply = r]}
    /\ UNCHANGED <<calcVars, modeVars, micVars, clock, nCalls, log>>

-----------------------------------------------------------------------------
(***************************************************************************)
(* Voice capture.  A SpeechRecognition object is "starting" after start(),  *)
(* "listening" after its start event, "stopping" after stop(), "result" or  *)
(* "error" after that event; its end event, which the browser fires last in *)
(* every session, frees its slot ("none"): no handler of it runs again.     *)
(***************************************************************************)
Slots == DOMAIN recognitions

\* new SpeechRecognition(): the first free slot.
NewRecognition == CHOOSE s \in Slots :
                      /\ recognitions[s] = "none"
                      /\ \A r \in Slots : recognitions[r] = "none" => s <= r

\* lines 158-228
handleMicClick ==
    IF isListening
    THEN /\ recognitions' =
                IF recognitionRef # 0
                   /\ recognitions[recognitionRef] \in {"starting", "listening"}
                THEN [recognitions EXCEPT ![recognitionRef] = "stopping"]
                ELSE recognitions
         /\ UNCHANGED <<calcVars, modeVars, isListening, recognitionRef, evalVars>>
    ELSE /\ recognitions' = [recognitions EXCEPT ![NewRecognition] = "starting"]
         /\ recognitionRef' = NewRecognition
         /\ UNCHANGED <<calcVars, modeVars, isListening, evalVars>>

\* lines 177-179
onstart(s) ==
    /\ recognitions[s] = "starting"
    /\ recognitions' = [recognitions EXCEPT ![s] = "listening"]
    /\ isListening' = TRUE
    /\ UNCHANGED <<calcVars, modeVars, recognitionRef, evalVars>>

\* lines 181-184
onend(s) ==
    /\ recognitions[s] \in {"stopping", "result", "error"}
    /\ recognitions' = [recognitions EXCEPT ![s] = "none"]
    /\ isListening' = FALSE
    /\ recognitionRef' = 0
    /\ UNCHANGED <<calcVars, modeVars, evalVars>>

\* onerror clearing the buffer as a failed evaluation does.
onerrorClearsInput(s) ==
    /\ recognitions[s] \in {"starting", "listening", "stopping"}
    /\ recognitions' = [recognitions EXCEPT ![s] = "error"]
    /\ isListening' = FALSE
    /\ recognitionRef' = 0
    /\ input' = <<>>
    /\ UNCHANGED <<result, history, isLoading, isGemini, errorKey, modeVars,
                   evalVars>>

\* lines 186-193
onerror(s) ==
    /\ recognitions[s] \in {"starting", "listening", "stopping"}
    /\ recognitions' = [recognitions EXCEPT ![s] = "error"]
    /\ isListening' = FALSE
    /\ recognitionRef' = 0
    /\ UNCHANGED <<calcVars, modeVars, evalVars>>

\* lines 195-225
onresult(s, transcript) ==
    /\ recognitions[s] \in {"listening", "stopping"}
    /\ recognitions' = [recognitions EXCEPT ![s] = "result"]
    /\ input' = input \o Canonicalize(transcript)
    /\ UNCHANGED <<result, history, isLoading, isGemini, errorKey, modeVars,
                   isListening, recognitionRef, evalVars>>

-----------------------------------------------------------------------------
\* lines 233-240: the text a function key appends.
Functions(value) ==
    CASE value = "sin" -> IF is2nd THEN <<"a", "s", "i", "n", "(">> ELSE <<"s", "i", "n", "(">>
      [] value = "cos" -> IF is2nd THEN <<"a", "c", "o", "s", "(">> ELSE <<"c", "o", "s", "(">>
      [] value = "tan" -> IF is2nd THEN <<"a", "t", "a", "n", "(">> ELSE <<"t", "a", "n", "(">>
      [] value = "lg" -> IF is2nd THEN <<"1", "0", "^">> ELSE <<"l", "g", "(">>
      [] value = "ln" -> IF is2nd THEN <<"e", "^">> ELSE <<"l", "n", "(">>
      \* the square-root key, written "sqrt" here
      [] value = "sqrt" -> IF is2nd THEN <<"^", "2">> ELSE <<"s", "q", "r", "t", "(">>
      [] OTHER -> <<>>

\* setInput(prev => prev + text), and nothing else
AppendText(text) ==
    /\ input' = input \o text
    /\ UNCHANGED <<result, history, isLoading, isGemini, errorKey, modeVars,
                   micVars, evalVars>>

\* line 262: the literal `value` replaces the buffer instead of being appended.
Replaces(value) ==
    /\ result # ZeroText
    /\ input = result
    /\ value \notin {"+", "-", "×", "÷", "%", "^"}

\* Busy with the guard dropped.
BusyNever(value) == FALSE

\* Busy with the guard kept for '=' alone.
BusyForEvaluateOnly(value) == isLoading /\ value = "="

\* if (isLoading) return;  line 231
Busy(value) == isLoading

\* lines 230-269
handleButtonClick(value) ==
    IF Busy(value) THEN UNCHANGED vars
    ELSE IF Functions(value) # <<>> THEN AppendText(Functions(value))
    ELSE CASE value = "AC" -> handleClear
           [] value = "=" -> handleCalculate
           [] value = "(" -> AppendText(<<"(">>)
           [] value = ")" -> AppendText(<<")">>)
           [] value = "Deg" -> /\ isDegrees' = ~isDegrees
                               /\ UNCHANGED <<calcVars, is2nd, micVars, evalVars>>
           [] value = "2nd" -> /\ is2nd' = ~is2nd
                               /\ UNCHANGED <<calcVars, isDegrees, micVars, evalVars>>
           [] value = "x^y" -> AppendText(<<"^">>)
           [] value = "!" -> AppendText(<<"!">>)
           [] value = "1/x" -> AppendText(<<"1", "/">>)
           [] value = "e" -> AppendText(<<"e">>)
           [] value = "π" -> AppendText(<<"π">>)
           [] value = "MIC" -> handleMicClick
           [] value = "DEL" -> /\ input' = DropLast(input)
                               /\ UNCHANGED <<result, history, isLoading, isGemini,
                                              errorKey, modeVars, micVars, evalVars>>
           [] OTHER ->
                IF Replaces(value)
                THEN /\ input' = <<value>>
                     /\ UNCHANGED <<result, history, isLoading, isGemini, errorKey,
                                    modeVars, micVars, evalVars>>
                ELSE AppendText(<<value>>)

\* handleHistoryClick without its setResult.
handleHistoryClickInputOnly(value) ==
    /\ input' = value
    /\ isGemini' = FALSE
    /\ UNCHANGED <<result, history, isLoading, errorKey, modeVars, micVars, evalVars>>

\* lines 271-275
handleHistoryClick(value) ==
    /\ input' = value
    /\ result' = value
    /\ isGemini' = FALSE
    /\ UNCHANGED <<history, isLoading, errorKey, modeVars, micVars, evalVars>>

\* The history surface hands the selected entry's result to onHistoryClick.
SelectHistory(i) == handleHistoryClick(history[i].result)

-----------------------------------------------------------------------------
(***************************************************************************)
(* The events of the model.  Spec is the keypad, the evaluation with its    *)
(* fallback call and the history surface; SpecVoice adds voice capture;     *)
(* SpecHist is Spec after WarmEvals evaluations of "1" have filled the      *)
(* history, and SpecHistVoice is SpecVoice after them; FairSpec is Spec     *)
(* with the microtask queue running every continuation whose promise has    *)
(* settled.                                                                 *)
(***************************************************************************)
\* The keys pressed.
Buttons == {"1", "+", "=", "AC", "DEL"}

\* The keys that append one character.
Literals == {"1", "+"}

\* A key press the bounds allow: at most `limit` evaluations, MaxSessions
\* capture sessions, and a buffer of at most MaxLen characters.
Press(value, limit) ==
    /\ value = "=" => clock < limit
    /\ value = "MIC" => (isListening \/ \E s \in Slots : recognitions[s] = "none")
    /\ value \in Literals => Len(input) < MaxLen
    /\ handleButtonClick(value)

Transcript(s, t) ==
    /\ Len(input) + Len(Canonicalize(t)) <= MaxLen
    /\ onresult(s, t)

Keys(limit) == \E value \in Buttons : Press(value, limit)

Select == \E i \in DOMAIN history : SelectHistory(i)

Reply == \E c \in calls, r \in Replies : ServiceReply(c, r)

Resume == \E c \in calls : handleCalculateResume(c)

Mic == Press("MIC", 0)

Voice ==
    \/ \E s \in Slots : onstart(s)
    \/ \E s \in Slots, t \in Transcripts : Transcript(s, t)
    \/ \E s \in Slots : onerror(s)
    \/ \E s \in Slots : onend(s)

Next == Keys(MaxEvals) \/ Select \/ Reply \/ Resume

Spec == Init /\ [][Next]_vars

NextVoice == Keys(MaxEvals) \/ Select \/ Reply \/ Resume \/ Mic \/ Voice

SpecVoice == Init /\ [][NextVoice]_vars

\* The first WarmEvals evaluations: "1", then '=' again and again.
Warm == handleButtonClick(IF input = <<>> THEN "1" ELSE "=")

WarmUp == clock < WarmEvals /\ Warm

Warmed(step) == clock >= WarmEvals /\ step

NextHist ==
    \/ WarmUp
    \/ Warmed(Keys(WarmEvals + MaxEvals))
    \/ Warmed(Select)
    \/ Warmed(Reply)
    \/ Warmed(Resume)

SpecHist == Init /\ [][NextHist]_vars

NextHistVoice ==
    \/ WarmUp
    \/ Warmed(Keys(WarmEvals + MaxEvals))
    \/ Warmed(Select)
    \/ Warmed(Reply)
    \/ Warmed(Resume)
    \/ Warmed(Mic)
    \/ Warmed(Voice)

SpecHistVoice == Init /\ [][NextHistVoice]_vars

FairSpec == Spec /\ WF_vars(Resume)

\* The characters of the texts handed to the expression rewrite: digits, the
\* glyphs it replaces and the letters of 'lg(' and 'ln('.
Alphabet == {"2", "3", "4", "×", "÷", "π", "l", "g", "n", "("}

\* The text of the specification's example.
ExampleText == <<"2", "×", "3", "÷", "4">>

\* Every text of at most MaxText characters, and the example.
Texts == UNION {[1..n -> Alphabet] : n \in 0..MaxText} \cup {ExampleText}

InitNormalize ==
    /\ input \in Texts
    /\ result = ZeroText
    /\ history = <<>>
    /\ isLoading = FALSE
    /\ isGemini = FALSE
    /\ isDegrees = FALSE
    /\ is2nd = FALSE
    /\ errorKey = 0
    /\ isListening = FALSE
    /\ recognitionRef = 0
    /\ recognitions = [s \in 1..MaxSessions |-> "none"]
    /\ calls = {}
    /\ clock = 0
    /\ nCalls = 0
    /\ log = <<>>

\* The rewrite of lines 116-117 applied to the buffer, whose outcome is the
\* next text handed to it.
NormalizeInput ==
    /\ input' = Normalize(input)
    /\ UNCHANGED <<result, history, isLoading, isGemini, errorKey, modeVars,
                   micVars, evalVars>>

SpecNormalize == InitNormalize /\ [][NormalizeInput]_vars

\* The keys of SpecDiv: the digits and the glyph of a division, and '='.
DivButtons == {"1", "0", "÷", "="}

\* A key press of SpecDiv the bounds allow.
PressDiv(value) ==
    /\ value = "=" => clock < MaxEvals
    /\ value # "=" => Len(input) < MaxDivLen
    /\ handleButtonClick(value)

NextDiv == (\E value \in DivButtons : PressDiv(value)) \/ Reply \/ Resume

\* The keypad of divisions, the evaluation and its fallback call.
SpecDiv == Init /\ [][NextDiv]_vars

\* The App before any event, with room for MicSessions capture sessions.
InitMic ==
    /\ input = <<>>
    /\ result = ZeroText
    /\ history = <<>>
    /\ isLoading = FALSE
    /\ isGemini = FALSE
    /\ isDegrees = FALSE
    /\ is2nd = FALSE
    /\ errorKey = 0
    /\ isListening = FALSE
    /\ recognitionRef = 0
    /\ recognitions = [s \in 1..MicSessions |-> "none"]
    /\ calls = {}
    /\ clock = 0
    /\ nCalls = 0
    /\ log = <<>>

\* The MIC key and the events of the capture sessions.
NextMic == Mic \/ Voice

SpecMic == InitMic /\ [][NextMic]_vars

\* The words of the transcripts SpecCanon draws: number words, a homophone,
\* operator words, a word and a digit the recognizer may write.
Vocabulary == {"two", "three", "to", "plus", "times", "power", "hello", "4"}

\* The transcripts of the specification's examples.
ExampleTranscripts ==
    {<<"two", "plus", "three", "times", "four">>,
     <<"two", "multiplied", "by", "three">>,
     <<"two", "divided", "by", "three">>,
     <<"two", "to", "the", "power", "of", "three">>}

\* Every transcript of at most MaxWords words, and the examples.
Utterances == UNION {[1..n -> Vocabulary] : n \in 0..MaxWords}
                  \cup ExampleTranscripts

\* The buffers a transcript is appended to.
Buffers == {<<>>, <<"1">>, <<"1", "+">>}

\* A capture session is listening, with one of the buffers composed.
InitCanon ==
    /\ input \in Buffers
    /\ result = ZeroText
    /\ history = <<>>
    /\ isLoading = FALSE
    /\ isGemini = FALSE
    /\ isDegrees = FALSE
    /\ is2nd = FALSE
    /\ errorKey = 0
    /\ isListening = TRUE
    /\ recognitionRef = 1
    /\ recognitions = [s \in 1..MaxSessions |->
                          IF s = 1 THEN "listening" ELSE "none"]
    /\ calls = {}
    /\ clock = 0
    /\ nCalls = 0
    /\ log = <<>>

\* The session that is listening delivers a transcript.
Dictate ==
    /\ recognitions[1] = "listening"
    /\ \E t \in Utterances : onresult(1, t)

SpecCanon == InitCanon /\ [][Dictate]_vars

-----------------------------------------------------------------------------
(***************************************************************************)
(* The claims.                                                              *)
(***************************************************************************)
Settled == {c \in calls : c.reply # NoReply}

\* C1: in every reachable state the history log holds at most 20 entries.
HistoryAtMostCap == Len(history) <= HistoryCap

\* More than 20 evaluations have succeeded and the history is full.
HistoryFullWitness == Len(log) > HistoryCap /\ Len(history) = HistoryCap

\* C2: the history is exactly the (at most) 20 most recent successful
\* evaluations, newest first: it is the front of the list of all successful
\* evaluations, untouched, and its dates fall from the front on.
HistoryIsMostRecent ==
    /\ history = Slice0(log, HistoryCap)
    /\ \A i \in 1..(Len(history) - 1) : history[i].date > history[i + 1].date

\* 21 evaluations have succeeded and the first of them is gone.
OldestEvictedWitness ==
    /\ Len(log) = HistoryCap + 1
    /\ Len(history) = HistoryCap
    /\ \A i \in DOMAIN history : history[i] # log[HistoryCap + 1]

\* C3: a step calls the fallback once if it starts an evaluation whose
\* primary evaluation fails, with that evaluation's input, and not at all
\* otherwise.
FallbackOncePerFailure ==
    [][LET failed == clock' # clock /\ ~Evaluate(Normalize(input)).ok
       IN  /\ nCalls' = nCalls + (IF failed THEN 1 ELSE 0)
           /\ \A c \in calls' : c.reply = NoReply /\ c \notin calls
                                    => failed /\ c.input = input]_vars

\* One evaluation failed in the primary and called the fallback; another
\* succeeded in the primary and did not.
FallbackOnceWitness == nCalls = 1 /\ clock = 2 /\ calls = {} /\ Len(log) >= 1

\* The fallback's answer is the marker, nothing, or a thrown failure.
FallbackFailed(reply) ==
    \/ reply.kind \in {"null", "throw"}
    \/ reply.kind = "value" /\ reply.result = ErrorText

\* C4: when the continuation of an evaluation whose fallback failed runs, it
\* leaves the buffer empty, an error marker on display, and the history as
\* it was when the evaluation was requested.
FallbackFailureEndState ==
    [][\A c \in Settled :
          c \notin calls' /\ FallbackFailed(c.reply)
             => /\ input' = <<>>
                /\ result' \in {ErrorText, ApiErrorText}
                /\ history' = c.hist0]_vars

\* A failed evaluation has ended after a successful one.
FallbackFailureWitness ==
    /\ result = ErrorText
    /\ input = <<>>
    /\ ~isLoading
    /\ Len(history) = 1
    /\ errorKey = 1

\* The buffer at the request of the evaluation that the step completes.
RequestedInput == IF calls' = calls THEN input
                  ELSE (CHOOSE c \in calls : c \notin calls').input

\* The result text of the evaluation that the step completes.
ProducedResult == IF calls' = calls THEN FormatResult(Evaluate(Normalize(input)).v)
                  ELSE (CHOOSE c \in calls : c \notin calls').reply.result

\* C5: a step that completes a successful evaluation leaves the session
\* Idle, the buffer and the display equal to the result text, and the newest
\* history entry made of the buffer at the request and that result text.
SuccessEndState ==
    [][Len(log') > Len(log)
          => /\ ~isLoading'
             /\ input' = ProducedResult
             /\ result' = ProducedResult
             /\ Len(history') > 0
             /\ history'[1].input = RequestedInput
             /\ history'[1].result = ProducedResult]_vars

\* A fallback success for the buffer "1+", after a primary success.
SuccessWitness ==
    /\ isGemini
    /\ ~isLoading
    /\ Len(history) = 2
    /\ input = result
    /\ history[1].result = result
    /\ history[1].input = <<"1", "+">>

\* C6: while Evaluating a press of '=' starts no evaluation, so at most one
\* fallback call is in flight, and none is unless the session is Evaluating.
OneEvaluationAtATime ==
    /\ Cardinality(calls) <= 1
    /\ calls # {} => isLoading
    /\ isLoading => ~ENABLED (handleButtonClick("=") /\ clock' # clock)

\* Evaluating, with a buffer that '=' would evaluate.
EvaluatingWitness == isLoading /\ Cardinality(calls) = 1 /\ input # <<>>

\* The keys that append a character, truncate or clear.
EditKeys == {"1", "+", "DEL", "AC"}

\* C7: while Evaluating no append, DEL or AC key changes the buffer, the
\* displayed result or the history.
EditsIgnoredWhileEvaluating ==
    isLoading =>
        \A value \in EditKeys :
            ~ENABLED (/\ handleButtonClick(value)
                      /\ <<input, result, history>>' # <<input, result, history>>)

\* Evaluating, with a buffer DEL would shorten and a history to keep.
EditsIgnoredWitness == isLoading /\ Len(input) = MaxLen /\ Len(history) > 0

\* C8: a transcript that arrives while Evaluating leaves the buffer as it is.
TranscriptIgnoredWhileEvaluating ==
    [][isLoading /\ (\E s \in Slots, t \in Transcripts : onresult(s, t))
          => input' = input]_vars

\* C9: selecting a history entry sets the buffer and the displayed result to
\* that entry's result text and leaves the history as it is.
SelectSetsBufferAndResult ==
    [][\A i \in DOMAIN history :
          SelectHistory(i) => /\ input' = history[i].result
                              /\ result' = history[i].result
                              /\ history' = history]_vars

\* The older of two entries is selected: buffer and display show its result,
\* which no evaluation or clear leaves there.
SelectWitness ==
    /\ Len(history) = 2
    /\ input = history[2].result
    /\ result = history[2].result
    /\ history[1].result # history[2].result

\* C10: an evaluation whose fallback call has settled returns to Idle.
SettledReturnsToIdle == (Settled # {}) ~> ~isLoading

\* Two evaluations went to the fallback, one failed and one succeeded, and
\* the session is Idle again.
ReturnedToIdleWitness ==
    /\ ~isLoading
    /\ calls = {}
    /\ nCalls = 2
    /\ errorKey = 1
    /\ isGemini

\* A fallback call that the service has not answered.
Unanswered == \E c \in calls : c.reply = NoReply

\* C11: an evaluation whose fallback call is never answered still returns to
\* Idle, with the buffer empty and an error marker on display.
UnansweredEndsInError ==
    []([]Unanswered => <>(/\ ~isLoading
                          /\ input = <<>>
                          /\ result \in {ErrorText, ApiErrorText}))

\* C12: the expression rewrite is idempotent: rewriting its own output
\* changes nothing.
NormalizeIdempotent == Normalize(Normalize(input)) = Normalize(input)

\* "2×3÷4" has been rewritten: the buffer holds the output "2*3/4".
NormalizedWitness == input = <<"2", "*", "3", "/", "4">>

\* The recognised words and phrases, each with its symbol.
Phrases == UNION {{[words |-> Rules[k].alts[j], sym |-> Rules[k].sym] :
                      j \in DOMAIN Rules[k].alts} : k \in DOMAIN Rules}

PhrasesAt(t) == {p \in Phrases : IsPrefix(p.words, t)}

\* No recognised word or phrase and no allowed character occurs in t.
Unmatched(t) ==
    \A i \in DOMAIN t : t[i] \notin Kept /\ PhrasesAt(SubSeq(t, i, Len(t))) = {}

\* The words of the vocabulary that are not recognised.
Unrecognised == {w \in Vocabulary : Unmatched(<<w>>)}

\* The transcripts of which nothing is recognised: the empty one and those
\* made of unrecognised words that form no phrase.
UnmatchedUtterances ==
    {t \in UNION {[1..n -> Unrecognised] : n \in 0..MaxWords} : Unmatched(t)}

\* C13: the step in which a listening session delivers its transcript keeps
\* the characters the buffer holds and appends characters of
\* 0-9 + - * / ^ ( ) . only; it appends nothing when the transcript is empty
\* or nothing of it is recognised.
TranscriptAppendsSymbols ==
    [][/\ recognitions[1] = "listening" /\ recognitions'[1] = "result"
          => /\ IsPrefix(input, input')
             /\ \A i \in (Len(input) + 1)..Len(input') : input'[i] \in Kept
       /\ \A t \in UnmatchedUtterances : onresult(1, t) => input' = input]_vars

\* "two plus three times four" has been appended to the buffer "1+".
AppendedWitness ==
    /\ input = <<"1", "+", "2", "+", "3", "*", "4">>
    /\ recognitions[1] = "result"

\* The longest recognised phrase at the front of t.
LongestAt(t) == CHOOSE p \in PhrasesAt(t) :
                    \A q \in PhrasesAt(t) : Len(q.words) <= Len(p.words)

\* Each recognised word or phrase of t as its symbol, in order; an allowed
\* character as itself; nothing for the rest.
RECURSIVE SymbolPerPhrase(_)
SymbolPerPhrase(t) ==
    IF t = <<>> THEN <<>>
    ELSE IF PhrasesAt(t) # {}
    THEN <<LongestAt(t).sym>>
            \o SymbolPerPhrase(SubSeq(t, Len(LongestAt(t).words) + 1, Len(t)))
    ELSE IF Head(t) \in Kept THEN <<Head(t)>> \o SymbolPerPhrase(Tail(t))
    ELSE SymbolPerPhrase(Tail(t))

\* C14: a transcript appends exactly one symbol for each recognised number
\* word, operator word and operator phrase, in the transcript's order.
TranscriptWordForWord ==
    [][\A t \in Utterances :
          onresult(1, t) => input' = input \o SymbolPerPhrase(t)]_vars

\* C15: a capture error leaves the buffer, the displayed result and the
\* history as they are; it ends the capture session.
CaptureErrorKeepsCalculator ==
    [][\A s \in Slots :
          onerror(s) => /\ input' = input
                        /\ result' = result
                        /\ history' = history
                        /\ ~isListening'
                        /\ recognitionRef' = 0]_vars

\* A capture error has come with a buffer, a result and a history to keep.
CaptureErrorWitness ==
    /\ \E s \in Slots : recognitions[s] = "error"
    /\ input # <<>>
    /\ result # ZeroText
    /\ Len(history) > 0

\* The capture sessions that were started and have neither ended nor
\* delivered their result or error.
ActiveSessions == {s \in Slots : recognitions[s] \in {"starting", "listening", "stopping"}}

\* C16: at most one capture session is active at any time.
OneCaptureSession == Cardinality(ActiveSessions) <= 1

\* The text holds a division whose divisor is the literal 0.
DividesByZero(s) ==
    \E i \in 1..(Len(s) - 1) :
        /\ s[i] = "÷"
        /\ s[i + 1] = "0"
        /\ i + 2 <= Len(s) => ~IsDigit(s[i + 2])

\* C17: the evaluation of a buffer that divides by zero records no history
\* entry and goes to the fallback.
DivisionByZeroFails ==
    [][handleButtonClick("=") /\ clock' # clock /\ DividesByZero(input)
          => /\ history' = history
             /\ nCalls' = nCalls + 1
             /\ isLoading']_vars

\* C18: in an Idle state the fallback flag is set only if the displayed
\* result is the result of the latest successful evaluation and the fallback
\* produced it (the primary evaluation of its input fails).
FallbackFlagMeansFallbackResult ==
    ~isLoading /\ isGemini
        => /\ log # <<>>
           /\ result = log[1].result
           /\ ~Evaluate(Normalize(log[1].input)).ok

\* The keys that append a character or delete one.
ComposeKeys == {"1", "+", "DEL"}

\* C19: once a key has appended or deleted a character, the next digit is
\* appended: the step of such a key never ends in a state in which a digit
\* replaces the buffer.
ComposedBufferIsKept ==
    [][~isLoading /\ input' # input
         /\ (\E value \in ComposeKeys : handleButtonClick(value))
          => ~Replaces("1")']_vars

\* C20: with an empty buffer a press of '=' changes nothing: the session
\* stays Idle, the result and the history stay, and no evaluation and no
\* fallback call is started.
EmptyEvaluateIsNoOp ==
    input = <<>> /\ ~isLoading
        => ~ENABLED (/\ handleButtonClick("=")
                     /\ <<isLoading, result, history, input, clock, nCalls, calls>>'
                            # <<isLoading, result, history, input, clock, nCalls, calls>>)

\* Idle with an empty buffer, an error marker on display and a history.
EmptyBufferWitness ==
    /\ input = <<>>
    /\ ~isLoading
    /\ result = ApiErrorText
    /\ Len(history) = 1

=============================================================================
